---- MODULE Spec2Model ----
(***************************************************************************)
(* rclrs WaitSet (rclrs/src/wait.rs): the Rust wrapper around the rcl      *)
(* wait-set, with the rcl resource layer modelled by its documented        *)
(* contract, the owners of the subscriptions and the readiness signals.    *)
(***************************************************************************)
EXTENDS Integers, Sequences, FiniteSets, TLC

\* ------------------------------------------------------------------ bounds
MaxSubs == 2        \* largest number_of_subscriptions passed to new
MaxOther == 0       \* largest count passed to new for any other category
MaxEndpoints == 2   \* publishers and subscriptions created in one test graph

\* --------------------------------------------------------------- constants
NULL == "NULL"      \* the empty marker of a slot
\* the subscriptions that exist outside the wait-set, each behind a Weak
Entities == {"A", "B"}
\* the return codes the rcl layer may produce for a call that can fail
RclCodes == {"Ok", "Error"}
Categories ==
  {"subscriptions", "guard_conditions", "timers", "clients", "services", "events"}
Sizes ==
  {s \in [Categories -> 0..(IF MaxSubs > MaxOther THEN MaxSubs ELSE MaxOther)] :
     /\ s["subscriptions"] <= MaxSubs
     /\ \A c \in Categories \ {"subscriptions"} : s[c] <= MaxOther}
\* timeout is an i64 in nanoseconds: one negative, zero, one positive value
Timeouts == {-1, 0, 1000000000}

VARIABLES
  held,         \* TRUE while the caller owns a WaitSet value
  wait_set,     \* WaitSet.wait_set : rcl_wait_set_t
  initialized,  \* WaitSet.initialized
  alive,        \* alive[e]: some owner still holds a strong reference to e
  ready,        \* ready[e]: the resource layer has a readiness signal for e
  pc,           \* "idle", "blocked" (inside rcl_wait), "aborted" or "panicked"
  timeout,      \* the timeout of the wait call in progress
  last,         \* the latest call of the WaitSet API: its name, its result and
                \* whether it reached the rcl layer
  events,       \* what the latest add_subscription did to the subscription, in order
  scoped,       \* the locks and strong references the wait-set thread holds
  finis,        \* calls of rcl_wait_set_fini on the wait-set that new produced last
  graph         \* the publishers and subscriptions the nodes have created

vars ==
  <<held, wait_set, initialized, alive, ready, pc, timeout, last, events, scoped, finis,
    graph>>

\* ------------------------------------------------------------ rcl layer
rcl_get_zero_initialized_wait_set ==
  [impl |-> FALSE, size |-> [c \in Categories |-> 0], subscriptions |-> <<>>]

\* rcl_wait_set_init: rc is the return code the resource layer produces
rcl_wait_set_init(ws, sizes, rc) ==
  IF rc = "Ok"
    THEN [ret |-> "Ok",
          ws |-> [impl |-> TRUE, size |-> sizes,
                  subscriptions |-> [i \in 1..sizes["subscriptions"] |-> NULL]]]
    ELSE [ret |-> rc, ws |-> ws]

EmptySlots(ws) == [i \in 1..Len(ws.subscriptions) |-> NULL]

Populated(ws) == {i \in 1..Len(ws.subscriptions) : ws.subscriptions[i] # NULL}

\* rcl_wait_set_clear: sets every entity of the wait set to NULL
rcl_wait_set_clear(ws, rc, wiped) ==
  IF ~ws.impl THEN [ret |-> "WaitSetInvalid", ws |-> ws]
  ELSE IF rc = "Ok" THEN [ret |-> "Ok", ws |-> [ws EXCEPT !.subscriptions = EmptySlots(ws)]]
  ELSE [ret |-> rc,
        ws |-> IF wiped THEN [ws EXCEPT !.subscriptions = EmptySlots(ws)] ELSE ws]

\* NextFreeSlot: the lowest slot of the subscription array holding NULL, or 0
NextFreeSlot(ws) ==
  IF \E i \in 1..Len(ws.subscriptions) : ws.subscriptions[i] = NULL
    THEN CHOOSE i \in 1..Len(ws.subscriptions) :
           /\ ws.subscriptions[i] = NULL
           /\ \A j \in 1..(i - 1) : ws.subscriptions[j] # NULL
    ELSE 0

\* rcl_wait_set_add_subscription: stores the handle of e in the next free slot
rcl_wait_set_add_subscription(ws, e, rc) ==
  IF ~ws.impl THEN [ret |-> "WaitSetInvalid", ws |-> ws]
  ELSE IF NextFreeSlot(ws) = 0 THEN [ret |-> "WaitSetFull", ws |-> ws]
  ELSE IF rc # "Ok" THEN [ret |-> rc, ws |-> ws]
  ELSE [ret |-> "Ok", ws |-> [ws EXCEPT !.subscriptions[NextFreeSlot(ws)] = e]]

\* slots whose handle points into a subscription that has been destroyed
StaleSlots(ws) == {i \in Populated(ws) : ~alive[ws.subscriptions[i]]}

ReadySlots(ws) == {i \in Populated(ws) : ready[ws.subscriptions[i]]}

\* the wait set with every slot outside keep set to NULL
Keep(ws, keep) ==
  [ws EXCEPT !.subscriptions =
     [i \in 1..Len(ws.subscriptions) |-> IF i \in keep THEN ws.subscriptions[i] ELSE NULL]]

\* rcl_wait reading a handle of a destroyed subscription: undefined behaviour,
\* any return code with any subset of the slots left, or the process dies
UndefinedWait(ws) ==
  {[ret |-> r, ws |-> Keep(ws, k)] :
     r \in {"Ok", "Timeout", "Error", "Abort"}, k \in SUBSET Populated(ws)}

\* an unspecified error (or an interruption) of rcl_wait
FailedWait(ws) == {[ret |-> "Error", ws |-> w] : w \in {ws, Keep(ws, {})}}

\* rcl_wait: the outcomes of entering the call (blocked = FALSE) or of leaving
\* the blocked state (blocked = TRUE); ret = "pending" is the call blocking
\* rcl_wait without the test for a wait set holding no item
rcl_wait_unchecked(ws, t, blocked) ==
  IF ~ws.impl THEN {[ret |-> "WaitSetInvalid", ws |-> ws]}
  ELSE IF ReadySlots(ws) # {}
    THEN {[ret |-> "Ok", ws |-> Keep(ws, ReadySlots(ws))]}
  ELSE IF t = 0 \/ (blocked /\ t > 0)
    THEN {[ret |-> "Timeout", ws |-> Keep(ws, {})]}
  ELSE IF blocked THEN FailedWait(ws)
  ELSE {[ret |-> "pending", ws |-> ws]}

rcl_wait(ws, t, blocked) ==
  IF ~ws.impl THEN {[ret |-> "WaitSetInvalid", ws |-> ws]}
  ELSE IF Populated(ws) = {} THEN {[ret |-> "WaitSetEmpty", ws |-> ws]}
  ELSE IF StaleSlots(ws) # {} THEN UndefinedWait(ws)
  ELSE IF ReadySlots(ws) # {}
    THEN {[ret |-> "Ok", ws |-> Keep(ws, ReadySlots(ws))]} \cup FailedWait(ws)
  ELSE IF t = 0 \/ (blocked /\ t > 0)
    THEN {[ret |-> "Timeout", ws |-> Keep(ws, {})]} \cup FailedWait(ws)
  ELSE IF blocked THEN FailedWait(ws)
  ELSE {[ret |-> "pending", ws |-> ws]} \cup FailedWait(ws)

\* rcl_wait_set_fini: releases the allocation of the wait set
rcl_wait_set_fini(ws, rc) ==
  IF rc = "Ok" THEN [ret |-> "Ok", ws |-> rcl_get_zero_initialized_wait_set]
  ELSE [ret |-> rc, ws |-> ws]

Init ==
  /\ held = FALSE
  /\ wait_set = rcl_get_zero_initialized_wait_set
  /\ initialized = FALSE
  /\ alive = [e \in Entities |-> TRUE]
  /\ ready = [e \in Entities |-> FALSE]
  /\ pc = "idle"
  /\ timeout = 0
  /\ last = [op |-> "none", ret |-> "none", rcl |-> FALSE]
  /\ events = <<>>
  /\ scoped = {}
  /\ finis = 0
  /\ graph = <<>>

\* ------------------------------------------------------------ WaitSet
\* new handing the WaitSet to the caller whatever rcl_wait_set_init returned
new_unchecked(sizes, rc) ==
  /\ ~held /\ pc = "idle"
  /\ LET res == rcl_wait_set_init(rcl_get_zero_initialized_wait_set, sizes, rc) IN
       /\ last' = [op |-> "new", ret |-> res.ret, rcl |-> TRUE]
       /\ held' = TRUE
       /\ wait_set' = res.ws
       /\ initialized' = (res.ret = "Ok")
       /\ finis' = 0
       /\ events' = <<>>
  /\ UNCHANGED <<alive, ready, pc, timeout, scoped, graph>>

\* on Err the local WaitSet is not returned: it goes out of scope in new, and
\* its Drop hands the wait set that rcl_wait_set_init refused, which holds no
\* allocation, to rcl_wait_set_fini
new(sizes, rc) ==
  /\ ~held /\ pc = "idle"
  /\ LET res == rcl_wait_set_init(rcl_get_zero_initialized_wait_set, sizes, rc) IN
       /\ last' = [op |-> "new", ret |-> res.ret, rcl |-> TRUE]
       /\ IF res.ret = "Ok"
            THEN /\ held' = TRUE
                 /\ wait_set' = res.ws
                 /\ initialized' = TRUE
                 /\ finis' = 0
                 /\ events' = <<>>
            ELSE /\ held' = FALSE
                 /\ wait_set' = rcl_wait_set_fini(res.ws, "Ok").ws
                 /\ initialized' = FALSE
                 /\ finis' = finis
                 /\ events' = <<<<"fini", NULL>>>>
  /\ UNCHANGED <<alive, ready, pc, timeout, scoped, graph>>

\* clear without the guard on the flag
clear_unguarded(rc, wiped) ==
  /\ held /\ pc = "idle"
  /\ LET res == rcl_wait_set_clear(wait_set, rc, wiped) IN
       /\ initialized' = FALSE
       /\ wait_set' = res.ws
       /\ last' = [op |-> "clear", ret |-> res.ret, rcl |-> TRUE]
  /\ events' = <<>>
  /\ UNCHANGED <<held, alive, ready, pc, timeout, scoped, finis, graph>>

\* clear resetting the flag only when the rcl layer succeeds
clear_keeps_flag(rc, wiped) ==
  /\ held /\ pc = "idle"
  /\ IF ~initialized
       THEN /\ last' = [op |-> "clear", ret |-> "WaitSetInvalid", rcl |-> FALSE]
            /\ UNCHANGED <<wait_set, initialized>>
       ELSE LET res == rcl_wait_set_clear(wait_set, rc, wiped) IN
              /\ initialized' = (res.ret # "Ok")
              /\ wait_set' = res.ws
              /\ last' = [op |-> "clear", ret |-> res.ret, rcl |-> TRUE]
  /\ events' = <<>>
  /\ UNCHANGED <<held, alive, ready, pc, timeout, scoped, finis, graph>>

clear(rc, wiped) ==
  /\ held /\ pc = "idle"
  /\ IF ~initialized
       THEN /\ last' = [op |-> "clear", ret |-> "WaitSetInvalid", rcl |-> FALSE]
            /\ UNCHANGED <<wait_set, initialized>>
       ELSE LET res == rcl_wait_set_clear(wait_set, rc, wiped) IN
              /\ initialized' = FALSE
              /\ wait_set' = res.ws
              /\ last' = [op |-> "clear", ret |-> res.ret, rcl |-> TRUE]
  /\ events' = <<>>
  /\ UNCHANGED <<held, alive, ready, pc, timeout, scoped, finis, graph>>

\* add_subscription locking the handle before the Weak is resolved and
\* returning with the guard still held
AddEvents_leaky(e, upgraded) ==
  IF upgraded
    THEN <<<<"lock", e>>, <<"upgrade", e>>, <<"rcl", e>>, <<"release", e>>>>
    ELSE <<<<"lock", e>>, <<"upgrade_failed", e>>>>

\* what add_subscription does to subscription e, in program order: the Weak is
\* upgraded; on success the handle lock is taken, the rcl layer is called with
\* the handle, and on return the guard and then the Arc are released
AddEvents(e, upgraded) ==
  IF upgraded
    THEN <<<<"upgrade", e>>, <<"lock", e>>, <<"rcl", e>>, <<"unlock", e>>, <<"release", e>>>>
    ELSE <<<<"upgrade_failed", e>>>>

\* the locks and strong references held after the events evs, from has
RECURSIVE Scoped(_, _)
Scoped(has, evs) ==
  IF evs = <<>> THEN has
  ELSE LET ev == Head(evs) IN
    Scoped(CASE ev[1] = "upgrade" -> has \cup {<<"arc", ev[2]>>}
             [] ev[1] = "release" -> has \ {<<"arc", ev[2]>>}
             [] ev[1] = "lock" -> has \cup {<<"lock", ev[2]>>}
             [] ev[1] = "unlock" -> has \ {<<"lock", ev[2]>>}
             [] OTHER -> has,
           Tail(evs))

\* add_subscription skipping a subscription that already occupies a slot
add_subscription_dedup(e, rc) ==
  /\ held /\ pc = "idle"
  /\ IF alive[e]
       THEN LET res == IF \E i \in Populated(wait_set) : wait_set.subscriptions[i] = e
                         THEN [ret |-> "Ok", ws |-> wait_set]
                         ELSE rcl_wait_set_add_subscription(wait_set, e, rc) IN
              /\ wait_set' = res.ws
              /\ last' = [op |-> "add_subscription", ret |-> res.ret, rcl |-> TRUE]
       ELSE /\ last' = [op |-> "add_subscription", ret |-> "DroppedSubscription",
                        rcl |-> FALSE]
            /\ UNCHANGED wait_set
  /\ events' = AddEvents(e, alive[e])
  /\ scoped' = Scoped(scoped, AddEvents(e, alive[e]))
  /\ UNCHANGED <<held, initialized, alive, ready, pc, timeout, finis, graph>>

\* add_subscription using the handle without upgrading the Weak
add_subscription_cached(e, rc) ==
  /\ held /\ pc = "idle"
  /\ LET res == rcl_wait_set_add_subscription(wait_set, e, rc) IN
       /\ wait_set' = res.ws
       /\ last' = [op |-> "add_subscription", ret |-> res.ret, rcl |-> TRUE]
  /\ events' = AddEvents(e, TRUE)
  /\ scoped' = Scoped(scoped, AddEvents(e, TRUE))
  /\ UNCHANGED <<held, initialized, alive, ready, pc, timeout, finis, graph>>

\* add_subscription dropping the return code of the rcl layer
add_subscription_unchecked(e, rc) ==
  /\ held /\ pc = "idle"
  /\ IF alive[e]
       THEN LET res == rcl_wait_set_add_subscription(wait_set, e, rc) IN
              /\ wait_set' = res.ws
              /\ last' = [op |-> "add_subscription", ret |-> "Ok", rcl |-> TRUE]
       ELSE /\ last' = [op |-> "add_subscription", ret |-> "DroppedSubscription",
                        rcl |-> FALSE]
            /\ UNCHANGED wait_set
  /\ events' = AddEvents(e, alive[e])
  /\ scoped' = Scoped(scoped, AddEvents(e, alive[e]))
  /\ UNCHANGED <<held, initialized, alive, ready, pc, timeout, finis, graph>>

add_subscription(e, rc) ==
  /\ held /\ pc = "idle"
  /\ IF alive[e]
       THEN LET res == rcl_wait_set_add_subscription(wait_set, e, rc) IN
              /\ wait_set' = res.ws
              /\ last' = [op |-> "add_subscription", ret |-> res.ret, rcl |-> TRUE]
       ELSE /\ last' = [op |-> "add_subscription", ret |-> "DroppedSubscription",
                        rcl |-> FALSE]
            /\ UNCHANGED wait_set
  /\ events' = AddEvents(e, alive[e])
  /\ scoped' = Scoped(scoped, AddEvents(e, alive[e]))
  /\ UNCHANGED <<held, initialized, alive, ready, pc, timeout, finis, graph>>

\* the state of the caller after rcl_wait produced ret
AfterWait(ret) ==
  IF ret = "pending" THEN "blocked" ELSE IF ret = "Abort" THEN "aborted" ELSE "idle"

wait(t) ==
  /\ held /\ pc = "idle"
  /\ \E o \in rcl_wait(wait_set, t, FALSE) :
       /\ wait_set' = o.ws
       /\ last' = [op |-> "wait", ret |-> o.ret, rcl |-> TRUE]
       /\ pc' = AfterWait(o.ret)
       /\ timeout' = IF o.ret = "pending" THEN t ELSE 0
  /\ events' = <<>>
  /\ UNCHANGED <<held, initialized, alive, ready, scoped, finis, graph>>

\* the blocked wait call returns: readiness, timeout, interruption
wait_return ==
  /\ held /\ pc = "blocked"
  /\ \E o \in rcl_wait(wait_set, timeout, TRUE) :
       /\ wait_set' = o.ws
       /\ last' = [last EXCEPT !.ret = o.ret]
       /\ pc' = AfterWait(o.ret)
       /\ timeout' = 0
  /\ UNCHANGED <<held, initialized, alive, ready, events, scoped, finis, graph>>

\* drop releasing the wait set only when the flag is true
drop_if_initialized(rc) ==
  /\ held /\ pc = "idle"
  /\ LET res == IF initialized THEN rcl_wait_set_fini(wait_set, rc)
                ELSE [ret |-> "Ok", ws |-> wait_set] IN
       /\ wait_set' = res.ws
       /\ held' = FALSE
       /\ finis' = IF initialized THEN finis + 1 ELSE finis
       /\ IF res.ret = "Ok"
            THEN /\ last' = [op |-> "drop", ret |-> "Ok", rcl |-> initialized]
                 /\ pc' = "idle"
            ELSE /\ last' = [op |-> "drop", ret |-> "panic", rcl |-> TRUE]
                 /\ pc' = "panicked"
  /\ events' = <<>>
  /\ UNCHANGED <<initialized, alive, ready, timeout, scoped, graph>>

\* drop ignoring the return code of rcl_wait_set_fini
drop_swallow(rc) ==
  /\ held /\ pc = "idle"
  /\ LET res == rcl_wait_set_fini(wait_set, rc) IN
       /\ wait_set' = res.ws
       /\ held' = FALSE
       /\ finis' = finis + 1
       /\ last' = [op |-> "drop", ret |-> "Ok", rcl |-> TRUE]
       /\ pc' = "idle"
  /\ events' = <<>>
  /\ UNCHANGED <<initialized, alive, ready, timeout, scoped, graph>>

drop(rc) ==
  /\ held /\ pc = "idle"
  /\ LET res == rcl_wait_set_fini(wait_set, rc) IN
       /\ wait_set' = res.ws
       /\ held' = FALSE
       /\ finis' = finis + 1
       /\ IF res.ret = "Ok"
            THEN /\ last' = [op |-> "drop", ret |-> "Ok", rcl |-> TRUE]
                 /\ pc' = "idle"
            ELSE /\ last' = [op |-> "drop", ret |-> "panic", rcl |-> TRUE]
                 /\ pc' = "panicked"
  /\ events' = <<>>
  /\ UNCHANGED <<initialized, alive, ready, timeout, scoped, graph>>

\* ------------------------------------------------- owners and readiness
\* the owner of subscription e releases it: every Weak of e stops upgrading
subscription_drop(e) ==
  /\ pc \in {"idle", "blocked"}
  /\ alive[e]
  /\ alive' = [alive EXCEPT ![e] = FALSE]
  /\ ready' = [ready EXCEPT ![e] = FALSE]
  /\ UNCHANGED <<held, wait_set, initialized, pc, timeout, last, events, scoped, finis,
               graph>>

\* a message arrives for subscription e
mark_ready(e) ==
  /\ pc \in {"idle", "blocked"}
  /\ alive[e] /\ ~ready[e]
  /\ ready' = [ready EXCEPT ![e] = TRUE]
  /\ UNCHANGED <<held, wait_set, initialized, alive, pc, timeout, last, events, scoped, finis,
               graph>>

\* the owner of subscription e takes its pending message
take(e) ==
  /\ pc \in {"idle", "blocked"}
  /\ ready[e]
  /\ ready' = [ready EXCEPT ![e] = FALSE]
  /\ UNCHANGED <<held, wait_set, initialized, alive, pc, timeout, last, events, scoped, finis,
               graph>>

Next ==
  \/ \E sizes \in Sizes, rc \in {"Ok", "BadAlloc"} : new(sizes, rc)
  \/ \E rc \in RclCodes, wiped \in BOOLEAN : clear(rc, wiped)
  \/ \E e \in Entities, rc \in RclCodes : add_subscription(e, rc)
  \/ \E t \in Timeouts : wait(t)
  \/ wait_return
  \/ \E rc \in RclCodes : drop(rc)
  \/ \E e \in Entities : subscription_drop(e)
  \/ \E e \in Entities : mark_ready(e)
  \/ \E e \in Entities : take(e)

Spec == Init /\ [][Next]_vars

\* the behaviours in which no call of the rcl layer reports an error
NoFault == last'.ret \notin {"Error", "BadAlloc", "panic", "Abort"}

NextNoFault ==
  \/ (\E sizes \in Sizes : new(sizes, "Ok"))
  \/ (\E wiped \in BOOLEAN : clear("Ok", wiped))
  \/ (\E e \in Entities : add_subscription(e, "Ok"))
  \/ (\E t \in Timeouts : wait(t) /\ NoFault)
  \/ (wait_return /\ NoFault)
  \/ drop("Ok")
  \/ (\E e \in Entities : subscription_drop(e))
  \/ (\E e \in Entities : mark_ready(e))
  \/ (\E e \in Entities : take(e))

SpecNoFault == Init /\ [][NextNoFault]_vars

\* ------------------------------------------------------------ node graph
\* the nodes of the test graphs: two in one namespace, one in another
GraphNodes ==
  {[name |-> "graph_test_node_1", ns |-> "test_publishers_graph"],
   [name |-> "graph_test_node_2", ns |-> "test_publishers_graph"],
   [name |-> "graph_test_node_1", ns |-> "test_subscriptions_graph"]}

Topics == {"graph_test_topic_1", "graph_test_topic_2"}

MsgTypes == {"test_msgs/msg/Empty", "test_msgs/msg/BasicTypes"}

\* Node::namespace: the namespace given to the builder, as an absolute name
namespace(n) == "/" \o n.ns

\* a topic name registered as given, without the namespace of the node
ExpandTopic_relative(ns, topic) == "/" \o topic

\* a relative topic name expanded in a namespace whose absolute name is ns
ExpandTopic(ns, topic) == ns \o "/" \o topic

\* the endpoint a node registers in the graph when it creates an entity
Endpoint(n, kind, topic, type) ==
  [node |-> n, kind |-> kind, requested |-> topic,
   topic |-> ExpandTopic(namespace(n), topic), type |-> type]

create_publisher(n, topic, type) ==
  /\ Len(graph) < MaxEndpoints
  /\ graph' = Append(graph, Endpoint(n, "publisher", topic, type))
  /\ UNCHANGED <<held, wait_set, initialized, alive, ready, pc, timeout, last, events,
                 scoped, finis>>

create_subscription(n, topic, type) ==
  /\ Len(graph) < MaxEndpoints
  /\ graph' = Append(graph, Endpoint(n, "subscription", topic, type))
  /\ UNCHANGED <<held, wait_set, initialized, alive, ready, pc, timeout, last, events,
                 scoped, finis>>

\* the endpoints of one kind on the topic with the absolute name fq
EndpointsOn(kind, fq) ==
  {i \in 1..Len(graph) : graph[i].kind = kind /\ graph[i].topic = fq}

count_publishers(fq) == Cardinality(EndpointsOn("publisher", fq))

count_subscriptions(fq) == Cardinality(EndpointsOn("subscription", fq))

\* the topics of the endpoints of one kind of the node (name, ns), each with
\* the set of its message types
NamesAndTypesByNode(kind, name, ns) ==
  LET mine == {i \in 1..Len(graph) :
                 /\ graph[i].kind = kind
                 /\ graph[i].node.name = name
                 /\ namespace(graph[i].node) = ns}
  IN [t \in {graph[i].topic : i \in mine} |->
        {graph[i].type : i \in {j \in mine : graph[j].topic = t}}]

get_publisher_names_and_types_by_node(name, ns) ==
  NamesAndTypesByNode("publisher", name, ns)

get_subscription_names_and_types_by_node(name, ns) ==
  NamesAndTypesByNode("subscription", name, ns)

NextGraph ==
  \/ \E n \in GraphNodes, t \in Topics, ty \in MsgTypes : create_publisher(n, t, ty)
  \/ \E n \in GraphNodes, t \in Topics, ty \in MsgTypes : create_subscription(n, t, ty)

SpecGraph == Init /\ [][NextGraph]_vars

\* ---------------------------------------------------------------- calls
WaitCall == \E t \in Timeouts : wait(t)

AddCall == \E e \in Entities, rc \in RclCodes : add_subscription(e, rc)

ClearCall == \E rc \in RclCodes, wiped \in BOOLEAN : clear(rc, wiped)

\* the wait call with timeout t returns, at once or out of the blocked state
ReturnOf(t) ==
  \/ (wait(t) /\ last'.ret # "pending")
  \/ (pc = "blocked" /\ timeout = t /\ wait_return)

\* the slots of the subscription array that hold the handle of e
SlotsOf(ws, e) == {i \in Populated(ws) : ws.subscriptions[i] = e}

\* every slot of the subscription array holds a handle
Full(ws) == Populated(ws) = 1..Len(ws.subscriptions)

\* ---------------------------------------------------------------- claims
\* C1: wait on a freshly allocated wait-set into which nothing was added
\* returns WaitSetEmpty, whatever the capacities and the timeout, and does
\* not block.
C1_FreshWaitIsEmpty ==
  [][(held /\ last.op = "new" /\ WaitCall)
       => (last'.ret = "WaitSetEmpty" /\ pc' = "idle")]_vars

C1_Witness ==
  /\ last.op = "wait" /\ last.ret = "WaitSetEmpty"
  /\ initialized
  /\ wait_set.size["subscriptions"] = 1
  /\ pc = "idle"

\* C2: add_subscription with a Weak whose subscription has been released
\* returns DroppedSubscription and changes neither the slots nor the flag,
\* also when the same subscription was registered before its release.
C2_DroppedLeavesSlots ==
  [][\A e \in Entities :
       (~alive[e] /\ (\E rc \in RclCodes : add_subscription(e, rc)))
         => (/\ last'.ret = "DroppedSubscription"
             /\ ~last'.rcl
             /\ UNCHANGED <<wait_set, initialized>>)]_vars

C2_Witness ==
  /\ last.op = "add_subscription" /\ last.ret = "DroppedSubscription"
  /\ \E i \in Populated(wait_set) : ~alive[wait_set.subscriptions[i]]
  /\ \E e \in Entities : alive[e]

\* C3 (as claimed): in the cycle clear, fill, wait, repeated on one wait-set,
\* a clear that follows a wait which consumed the fill returns Ok when the
\* rcl layer reports no error.
C3_ClearSucceedsEveryCycle ==
  [][(ClearCall /\ last.op = "wait" /\ last.ret \in {"Ok", "Timeout"})
       => last'.ret = "Ok"]_vars

\* C4 (as claimed): while the wait-set exists, the flag is true exactly when
\* the rcl layer holds a live allocation for it.
C4_FlagIffAllocation == held => (initialized <=> wait_set.impl)

\* C5 (as claimed): add_subscription and wait called with the flag false
\* return WaitSetInvalid without reaching the rcl layer or changing a slot.
C5_FlagGuardsFillAndWait ==
  [][((AddCall \/ WaitCall) /\ ~initialized)
       => (/\ last'.ret = "WaitSetInvalid"
           /\ ~last'.rcl
           /\ UNCHANGED wait_set)]_vars

\* C6 (as claimed): after a wait has consumed the wait-set and before any
\* clear, a second wait or an add_subscription returns a state error and is
\* not passed to the rcl layer.
C6_WaitedNeedsClear ==
  [][((AddCall \/ WaitCall) /\ last.op = "wait" /\ last.ret \in {"Ok", "Timeout"})
       => (/\ last'.ret = "WaitSetInvalid"
           /\ ~last'.rcl
           /\ UNCHANGED wait_set)]_vars

\* C7: clear with the flag false returns WaitSetInvalid without calling the
\* rcl layer; clear with the flag true leaves the flag false whether the rcl
\* layer succeeds or fails, and returns the code of the rcl layer.
C7_ClearResetsFlag ==
  [][\A rc \in RclCodes, wiped \in BOOLEAN :
       clear(rc, wiped)
         => IF ~initialized
              THEN /\ last'.ret = "WaitSetInvalid"
                   /\ ~last'.rcl
                   /\ UNCHANGED <<wait_set, initialized>>
              ELSE /\ ~initialized'
                   /\ last'.rcl
                   /\ last'.ret = rcl_wait_set_clear(wait_set, rc, wiped).ret]_vars

C7_Witness ==
  /\ held /\ ~initialized
  /\ last.op = "clear" /\ last.ret = "Error" /\ last.rcl

\* C8: a clear that directly follows a clear leaves the slots, the flag and
\* the capacities as the first clear left them, whatever it returns; after a
\* first clear that succeeded, every slot is empty.
C8_ClearIdempotent ==
  [][(ClearCall /\ last.op = "clear")
       => (/\ UNCHANGED <<wait_set, initialized>>
           /\ (last.ret = "Ok" => Populated(wait_set') = {}))]_vars

C8_Witness ==
  /\ held
  /\ last.op = "clear" /\ last.ret = "WaitSetInvalid" /\ ~last.rcl
  /\ ~initialized
  /\ wait_set.size["subscriptions"] = MaxSubs
  /\ Populated(wait_set) = {}

\* C9: the capacities fixed by new never change, the subscription array keeps
\* the length requested (so at most that many slots are populated), and
\* add_subscription of a live subscription into a full array returns
\* WaitSetFull and leaves the slots unchanged.
C9_CapacityFixed ==
  [][/\ (held /\ held')
          => (/\ wait_set'.size = wait_set.size
              /\ Len(wait_set'.subscriptions) = wait_set.size["subscriptions"]
              /\ Cardinality(Populated(wait_set')) <= wait_set.size["subscriptions"])
     /\ \A e \in Entities :
          (alive[e] /\ Full(wait_set) /\ (\E rc \in RclCodes : add_subscription(e, rc)))
            => (last'.ret = "WaitSetFull" /\ UNCHANGED wait_set)]_vars

C9_Witness ==
  /\ last.op = "add_subscription" /\ last.ret = "WaitSetFull"
  /\ wait_set.size["subscriptions"] = MaxSubs
  /\ Cardinality(Populated(wait_set)) = MaxSubs

\* C10 (as claimed): when wait returns Ok, a slot populated before the call
\* is still populated exactly when its subscription became ready.
C10_ReadyIffPopulated ==
  [][((WaitCall \/ wait_return) /\ last'.ret = "Ok")
       => \A i \in Populated(wait_set) :
            (wait_set'.subscriptions[i] # NULL <=> ready[wait_set.subscriptions[i]])]_vars

\* C11 (as claimed): a wait with a positive timeout on a filled wait-set in
\* which nothing is ready when the call returns, returns Timeout and leaves
\* every slot empty.
C11_TimeoutEmptiesSlots ==
  [][\A t \in Timeouts :
       (t > 0 /\ ReturnOf(t) /\ Populated(wait_set) # {} /\ ReadySlots(wait_set) = {})
         => (last'.ret = "Timeout" /\ Populated(wait_set') = {})]_vars

\* C12 (as claimed): a wait with a negative timeout on a filled wait-set that
\* is not interrupted never returns Timeout: it returns only with Ok, when a
\* registered subscription is ready.
C12_NegativeWaitsForReady ==
  [][\A t \in Timeouts :
       (t < 0 /\ ReturnOf(t) /\ Populated(wait_set) # {})
         => (last'.ret = "Ok" /\ ReadySlots(wait_set) # {})]_vars

\* C13 (as claimed): a wait with timeout zero on a filled wait-set returns
\* without blocking, with Ok if a registered subscription is ready at the call
\* and with Timeout otherwise.
C13_ZeroIsPoll ==
  [][(wait(0) /\ Populated(wait_set) # {})
       => (/\ pc' = "idle"
           /\ last'.ret = IF ReadySlots(wait_set) # {} THEN "Ok" ELSE "Timeout")]_vars

\* C14: when rcl_wait_set_fini fails in drop, the drop panics: the failure is
\* not reported as a success, the WaitSet is gone, and after the panic no
\* operation of the wait-set thread takes place.
C14_DropPanics ==
  [][/\ \A rc \in RclCodes :
          (drop(rc) /\ rcl_wait_set_fini(wait_set, rc).ret # "Ok")
            => (last'.ret = "panic" /\ pc' = "panicked" /\ ~held')
     /\ pc = "panicked" => (pc' = "panicked" /\ UNCHANGED <<held, wait_set, last>>)]_vars

C14_Witness ==
  /\ pc = "panicked" /\ ~held
  /\ last.op = "drop" /\ last.ret = "panic"
  /\ finis = 1

\* C15: after new, either the caller holds a WaitSet whose flag is true and
\* whose wait set is allocated with the capacities requested, or new returned
\* the error code of rcl_wait_set_init and the caller holds nothing; a WaitSet
\* the caller holds was always allocated.
C15_NewAllOrNothing ==
  /\ held => wait_set.impl
  /\ last.op = "new"
       => IF last.ret = "Ok"
            THEN /\ held /\ initialized /\ wait_set.impl
                 /\ wait_set.size \in Sizes
                 /\ Len(wait_set.subscriptions) = wait_set.size["subscriptions"]
            ELSE /\ ~held /\ ~wait_set.impl
                 /\ last.ret = "BadAlloc" /\ last.rcl

C15_Witness ==
  /\ last.op = "new" /\ last.ret = "BadAlloc"
  /\ ~held /\ ~initialized /\ ~wait_set.impl

C17_NoStaleSlotAtWait ==
  [][(WaitCall \/ wait_return) => StaleSlots(wait_set) = {}]_vars

\* C18: add_subscription locks the handle of the subscription only after the
\* Weak has been upgraded, calls the rcl layer under the lock, and releases the
\* lock and then the strong reference before it returns, whatever the rcl
\* layer answers (Ok, an error, WaitSetFull); a Weak that does not upgrade
\* takes no lock. So the wait-set holds no lock and no strong reference
\* between operations or while wait is blocked.
C18_LockScoped ==
  /\ scoped = {}
  /\ \A i \in 1..Len(events) :
       events[i][1] = "lock"
         => \E j \in 1..(i - 1), k \in (i + 1)..Len(events), r \in 1..Len(events) :
              /\ events[j] = <<"upgrade", events[i][2]>>
              /\ events[k] = <<"unlock", events[i][2]>>
              /\ k < r /\ events[r] = <<"release", events[i][2]>>
              /\ \A c \in 1..Len(events) : events[c][1] = "rcl" => (i < c /\ c < k)
  /\ (last.op = "add_subscription" /\ last.ret = "DroppedSubscription")
       => \A i \in 1..Len(events) : events[i][1] \notin {"lock", "upgrade", "rcl"}
  /\ (last.op = "add_subscription" /\ last.rcl)
       => \E i \in 1..Len(events) : events[i][1] = "lock"

C18_Witness ==
  /\ last.op = "add_subscription" /\ last.ret = "WaitSetFull"
  /\ \E i \in 1..Len(events) : events[i][1] = "lock"
  /\ scoped = {}
  /\ \E e \in Entities : ~alive[e]

\* C19: rcl_wait_set_fini is called on a wait-set that new produced exactly
\* once, by its drop, whatever the flag is at that time (also after clear has
\* reset it); while the caller holds the WaitSet no operation has finalized it.
C19_FinalizedOnceByDrop ==
  /\ finis \in {0, 1}
  /\ held => finis = 0
  /\ last.op = "drop" => (~held /\ finis = 1 /\ last.rcl)

C19_Witness ==
  /\ last.op = "drop" /\ last.ret = "Ok"
  /\ ~held /\ ~initialized
  /\ finis = 1 /\ ~wait_set.impl

\* C20: add_subscription of a live subscription that already occupies a slot,
\* while a slot is free and the rcl layer reports no error, returns Ok and
\* stores the handle in one more slot: nothing is deduplicated, so the
\* subscription then occupies two slots.
C20_DuplicateTakesOwnSlot ==
  [][\A e \in Entities :
       (/\ alive[e] /\ SlotsOf(wait_set, e) # {} /\ ~Full(wait_set)
        /\ add_subscription(e, "Ok"))
         => (/\ last'.ret = "Ok"
             /\ Cardinality(SlotsOf(wait_set', e)) = Cardinality(SlotsOf(wait_set, e)) + 1
             /\ \A i \in Populated(wait_set) :
                  wait_set'.subscriptions[i] = wait_set.subscriptions[i])]_vars

C20_Witness ==
  /\ last.op = "add_subscription" /\ last.ret = "Ok"
  /\ Cardinality(SlotsOf(wait_set, "A")) = 2
  /\ alive["A"]
====
